---- MODULE Spec2Model ----
(***************************************************************************)
(* State-machine model of app.py: the catalog tables (products, stores,   *)
(* prices, costs, photos), the spreadsheet import handler (one            *)
(* transaction per row), the purge handler (one transaction per table),   *)
(* the photo upload handler and the listing tab (price / cost resolution  *)
(* and the margin card).                                                   *)
(*                                                                         *)
(* Conventions.  A nullable SQL column holds NULL == {} or Some(v) == {v}. *)
(* Text is a sequence of one-character strings.  A spreadsheet cell is a   *)
(* tagged record (NaN, text, number, date).  Money is counted in whole      *)
(* euros, dates in days.  The code never orders by a row id (a uuid4), it  *)
(* only keeps them distinct and follows them as foreign keys.              *)
(***************************************************************************)
EXTENDS Integers, Sequences, FiniteSets, TLC

VARIABLES
  products,   \* table products: set of rows
  stores,     \* table stores
  prices,     \* table prices
  costs,      \* table costs
  photos,     \* table photos
  up,         \* the workbook held by the file uploader, or NoFile
  pc,         \* "idle", "import" or "purge": the handler that is running
  sheet,      \* import: the sheet being read; purge: the table to delete next
  idx,        \* import: index of the next row of the sheet's frame
  msg,        \* last outcome shown: "none", "success", "exception", "purged", "photo"
  start,      \* the tables as they were when the import or purge began (NoSnap if none)
  repeat,     \* TRUE when the last import re-read a workbook just imported with success
  view        \* what the listing tab rendered, NoView once another handler has run

tables == <<products, stores, prices, costs, photos>>
vars == <<products, stores, prices, costs, photos, up, pc, sheet, idx, msg, start, repeat, view>>

-----------------------------------------------------------------------------
(* Bounds of the model *)

MaxRows == 2       \* rows in the prices sheet of a workbook
MaxProductRows == 1  \* rows in the products sheet of a workbook of ProductBooks
MaxPrices == 2     \* rows the prices table may hold
MaxCosts == 2      \* rows the costs table may hold
MaxPhotos == 1     \* rows the photos table may hold
MaxDate == 3       \* listing dates range over 0..MaxDate

-----------------------------------------------------------------------------
(* Values *)

NULL == {}
Some(v) == {v}
coalesce(a, b) == IF a # NULL THEN a ELSE b

NaN == [k |-> "nan"]
T(s) == [k |-> "text", s |-> s]
N(n) == [k |-> "num", n |-> n]
D(d) == [k |-> "date", d |-> d]

NoFile == [sheet_names |-> {"<none>"}]
NoSnap == [none |-> TRUE]
NoView == [none |-> TRUE]

\* uuid.uuid4(): an id no row of the table has.  The n-th row inserted with a
\* given content gets the id <<content, n>>, so that two catalogs that differ only
\* in the uuids drawn are one state
uuid4(tbl, content) == <<content, 1 + Cardinality({r \in tbl : r.id[1] = content})>>

\* str.strip() on a text
RECURSIVE lstrip(_)
lstrip(s) == IF s # <<>> /\ Head(s) = " " THEN lstrip(Tail(s)) ELSE s
RECURSIVE rstrip(_)
rstrip(s) == IF s # <<>> /\ s[Len(s)] = " " THEN rstrip(SubSeq(s, 1, Len(s) - 1)) ELSE s
strip(s) == rstrip(lstrip(s))

\* str(cell): the text of a text cell; a NaN cell prints as "nan"
str(c) == IF c.k = "text" THEN c.s ELSE <<"n", "a", "n">>

\* Python truthiness of a cell: an empty text is false
truthy(c) == c # T(<<>>)

\* (cell or None)
OrNone(c) == IF truthy(c) THEN Some(str(c)) ELSE NULL

\* DataFrame.fillna(""): every NaN cell of a row becomes the empty text
fillna(r) == [f \in DOMAIN r |-> IF r[f] = NaN THEN T(<<>>) ELSE r[f]]

\* DataFrame.dropna(subset=...): keeps the rows with no NaN in the subset
dropna(rows, subset) == SelectSeq(rows, LAMBDA r : \A f \in subset : r[f] # NaN)

FillFrame(rows) == [i \in 1..Len(rows) |-> fillna(rows[i])]

\* float(cell) raises on a cell that is not a number
FloatRaises(c) == c.k # "num"
float(c) == c.n

\* pd.to_datetime(cell).date() raises on a cell that is no date
DateRaises(c) == c.k # "date"
to_date(c) == c.d

\* prices.price is numeric(10,2): the insert fails from 10^8 euros on;
\* costs.cost is numeric(10,4): the insert fails from 10^6 euros on
PriceLimit == 100000000
CostLimit == 1000000

-----------------------------------------------------------------------------
(* SQL statements of the import *)

Active == <<"a", "c", "t", "i", "v", "e">>

\* variant, not the code: photo_url=excluded.photo_url: an import without photo blanks the stored one
UpsertProductPhotoBlanking(incoming, stored) == incoming

\* insert into products ... on conflict (sku) do update set ...
\* photo_url=coalesce(excluded.photo_url, products.photo_url)
UpsertProductPhoto(incoming, stored) == coalesce(incoming, stored)

UpsertProductSql(tbl, p) ==
  IF \E x \in tbl : x.sku = p.sku
  THEN {IF x.sku = p.sku
        THEN [x EXCEPT !.name = p.name,
                       !.brand = p.brand,
                       !.category = p.category,
                       !.status = coalesce(p.status, Some(Active)),
                       !.photo_url = UpsertProductPhoto(p.photo_url, x.photo_url)]
        ELSE x : x \in tbl}
  ELSE tbl \cup {[id |-> uuid4(tbl, p.sku), sku |-> p.sku, name |-> p.name, brand |-> p.brand,
                  category |-> p.category,
                  status |-> coalesce(p.status, Some(Active)),
                  photo_url |-> p.photo_url]}

\* the bind parameters upsert_products computes from a row
ProductParams(has_url, r) ==
  [sku |-> strip(str(r.sku)),
   name |-> strip(str(r.name)),
   brand |-> OrNone(r.brand),
   category |-> OrNone(r.category),
   status |-> IF truthy(r.status) THEN Some(str(r.status)) ELSE Some(Active),
   photo_url |-> IF has_url /\ r.photo_url # NaN /\ strip(str(r.photo_url)) # <<>>
                 THEN Some(strip(str(r.photo_url))) ELSE NULL]

\* insert into stores ... on conflict (code) do update set name, sector_id
UpsertStoreSql(tbl, p) ==
  IF \E x \in tbl : x.code = p.code
  THEN {IF x.code = p.code THEN [x EXCEPT !.name = p.name, !.sector_id = p.sector] ELSE x : x \in tbl}
  ELSE tbl \cup {[id |-> uuid4(tbl, p.code), code |-> p.code, name |-> p.name, sector_id |-> p.sector]}

StoreParams(r) ==
  [code |-> strip(str(r.code)), name |-> strip(str(r.name)), sector |-> OrNone(r.sector_id)]

\* select id from products where sku=:sku limit 1  (sku is unique)
get_product_id(sku) == {x.id : x \in {y \in products : y.sku = sku}}

\* select id from stores where code=:code limit 1  (code is unique)
get_store_id(code) == {x.id : x \in {y \in stores : y.code = code}}

\* the store id a prices row resolves to
PriceRowStore(r) == IF truthy(r.store_code) THEN get_store_id(strip(str(r.store_code))) ELSE NULL

\* valid_to of a prices / costs row: None for an empty cell
RowValidTo(r) == IF str(r.valid_to) # <<>> THEN Some(to_date(r.valid_to)) ELSE NULL

\* the row raises while its parameters are computed, or in the insert
RowRaises(r, value, limit) ==
  \/ FloatRaises(r[value])
  \/ float(r[value]) >= limit
  \/ DateRaises(r.valid_from)
  \/ (str(r.valid_to) # <<>> /\ DateRaises(r.valid_to))

\* insert into prices ... on conflict do nothing  (the only unique key is the fresh id)
InsertPriceSql(tbl, pid, sid, r) ==
  LET row == [product_id |-> pid, store_id |-> sid, price |-> float(r.price),
              valid_from |-> to_date(r.valid_from), valid_to |-> RowValidTo(r)]
  IN  tbl \cup {[id |-> uuid4(tbl, row), product_id |-> row.product_id,
                  store_id |-> row.store_id, price |-> row.price,
                  valid_from |-> row.valid_from, valid_to |-> row.valid_to]}

\* insert into costs ... on conflict do nothing
InsertCostSql(tbl, pid, r) ==
  LET row == [product_id |-> pid, cost |-> float(r.cost),
              valid_from |-> to_date(r.valid_from), valid_to |-> RowValidTo(r)]
  IN  tbl \cup {[id |-> uuid4(tbl, row), product_id |-> row.product_id, cost |-> row.cost,
                  valid_from |-> row.valid_from, valid_to |-> row.valid_to]}

-----------------------------------------------------------------------------
(* The import handler: "Importer" button, lines 313-412 *)

SheetOrder == <<"products", "stores", "prices", "costs">>
SheetNo(s) == CHOOSE k \in 1..Len(SheetOrder) : SheetOrder[k] = s

\* the frame the handler iterates for a sheet: absent sheets are skipped,
\* prices and costs go through dropna(subset) and every frame through fillna("")
Frame(wb, s) ==
  IF s \notin wb.sheet_names THEN <<>>
  ELSE IF s = "products" THEN FillFrame(wb.products)
  ELSE IF s = "stores" THEN FillFrame(wb.stores)
  ELSE IF s = "prices" THEN FillFrame(dropna(wb.prices, {"sku", "price", "valid_from"}))
  ELSE FillFrame(dropna(wb.costs, {"sku", "cost", "valid_from"}))

End == [sheet |-> "end", idx |-> 0]

\* the first row at or after row i of sheet number k, in sheet order; End if none is left
RECURSIVE NextPos(_, _, _)
NextPos(wb, k, i) ==
  IF k > Len(SheetOrder) THEN End
  ELSE IF i <= Len(Frame(wb, SheetOrder[k])) THEN [sheet |-> SheetOrder[k], idx |-> i]
  ELSE NextPos(wb, k + 1, 1)

\* where the handler goes after the row at (s, i) is done: the loop goes on
AfterRow(wb, s, i) == NextPos(wb, SheetNo(s), i + 1)

\* variant, not the code: the exception is caught inside the loop, which goes on with the next row
OnRaiseResume(wb, s, i) == NextPos(wb, SheetNo(s), i + 1)

\* where the handler goes when the row at (s, i) raises: the try block of line 314
\* is left for the except clause of line 411, nothing else is read
OnRaise(wb, s, i) == End

\* variant, not the code: a sku that resolves to no product raises instead of being skipped
RowOutcomeStrict(r, value, limit) ==
  IF get_product_id(strip(str(r.sku))) = NULL \/ RowRaises(r, value, limit) THEN "raise"
  ELSE "insert"

\* what the handler does with a prices / costs row: "skip" (continue), "raise" or "insert"
RowOutcome(r, value, limit) ==
  IF get_product_id(strip(str(r.sku))) = NULL THEN "skip"
  ELSE IF RowRaises(r, value, limit) THEN "raise"
  ELSE "insert"

Snapshot == [products |-> products, stores |-> stores, prices |-> prices,
             costs |-> costs, photos |-> photos]

GoTo(pos, ok) ==
  IF pos = End
  THEN /\ pc' = "idle"
       /\ msg' = IF ok THEN "success" ELSE "exception"
       /\ IF ok THEN sheet' = "end" /\ idx' = 0 ELSE UNCHANGED <<sheet, idx>>
  ELSE /\ pc' = "import"
       /\ sheet' = pos.sheet
       /\ idx' = pos.idx
       /\ UNCHANGED msg

\* the import handler starts on workbook wb: it is parsed and its first row reached
Begin(wb) ==
  /\ pc = "idle"
  /\ Cardinality(prices) + Len(wb.prices) <= MaxPrices
  /\ Cardinality(costs) + Len(wb.costs) <= MaxCosts
  /\ up' = wb
  /\ start' = Snapshot
  /\ IF NextPos(wb, 1, 1) = End
     THEN pc' = "idle" /\ msg' = "success" /\ sheet' = "end" /\ idx' = 0
     ELSE pc' = "import" /\ msg' = "none" /\ sheet' = NextPos(wb, 1, 1).sheet /\ idx' = 1
  /\ view' = NoView
  /\ UNCHANGED tables

\* a workbook is dropped in the empty uploader and "Importer" is clicked
ImportFile(wb) ==
  /\ up = NoFile
  /\ Begin(wb)
  /\ repeat' = FALSE

\* the workbook is removed from the uploader
ClearFile ==
  /\ pc = "idle"
  /\ up # NoFile
  /\ up' = NoFile
  /\ msg' = "none"
  /\ start' = NoSnap
  /\ repeat' = FALSE
  /\ sheet' = "end"
  /\ idx' = 0
  /\ view' = NoView
  /\ UNCHANGED <<tables, pc>>

\* "Importer" is clicked again on the workbook the uploader still holds
ClickImport ==
  /\ up # NoFile
  /\ Begin(up)
  /\ repeat' = (msg = "success")

\* one row of the products sheet: one execute, one transaction
ImportProductRow ==
  /\ pc = "import" /\ sheet = "products"
  /\ products' = UpsertProductSql(products, ProductParams(up.has_url, Frame(up, sheet)[idx]))
  /\ GoTo(AfterRow(up, sheet, idx), TRUE)
  /\ UNCHANGED <<stores, prices, costs, photos, up, start, repeat, view>>

\* one row of the stores sheet
ImportStoreRow ==
  /\ pc = "import" /\ sheet = "stores"
  /\ stores' = UpsertStoreSql(stores, StoreParams(Frame(up, sheet)[idx]))
  /\ GoTo(AfterRow(up, sheet, idx), TRUE)
  /\ UNCHANGED <<products, prices, costs, photos, up, start, repeat, view>>

\* one row of the prices sheet
ImportPriceRow ==
  /\ pc = "import" /\ sheet = "prices"
  /\ LET r == Frame(up, sheet)[idx]
         pid == get_product_id(strip(str(r.sku)))
         sid == PriceRowStore(r)
         out == RowOutcome(r, "price", PriceLimit)
     IN  /\ prices' = IF out = "insert"
                      THEN InsertPriceSql(prices, CHOOSE p \in pid : TRUE, sid, r)
                      ELSE prices
         /\ IF out = "raise"
            THEN GoTo(OnRaise(up, sheet, idx), FALSE)
            ELSE GoTo(AfterRow(up, sheet, idx), TRUE)
  /\ UNCHANGED <<products, stores, costs, photos, up, start, repeat, view>>

\* one row of the costs sheet
ImportCostRow ==
  /\ pc = "import" /\ sheet = "costs"
  /\ LET r == Frame(up, sheet)[idx]
         pid == get_product_id(strip(str(r.sku)))
         out == RowOutcome(r, "cost", CostLimit)
     IN  /\ costs' = IF out = "insert"
                     THEN InsertCostSql(costs, CHOOSE p \in pid : TRUE, r)
                     ELSE costs
         /\ IF out = "raise"
            THEN GoTo(OnRaise(up, sheet, idx), FALSE)
            ELSE GoTo(AfterRow(up, sheet, idx), TRUE)
  /\ UNCHANGED <<products, stores, prices, photos, up, start, repeat, view>>

\* the process dies while a handler runs: committed rows stay, the session is lost
Crash ==
  /\ pc # "idle"
  /\ pc' = "idle"
  /\ up' = NoFile
  /\ msg' = "none"
  /\ start' = NoSnap
  /\ repeat' = FALSE
  /\ sheet' = "end"
  /\ idx' = 0
  /\ view' = NoView
  /\ UNCHANGED tables

-----------------------------------------------------------------------------
(* The purge handler, lines 302-308: five deletes, one transaction each *)

\* variant, not the code: the parent tables are emptied first
PurgeOrderParentsFirst == <<"stores", "products", "photos", "prices", "costs">>

PurgeOrder == <<"photos", "prices", "costs", "products", "stores">>

\* delete from <t>, with the foreign keys of SCHEMA_SQL: prices, costs and photos
\* reference products on delete cascade, prices references stores on delete set null
DeleteFrom(t) ==
  /\ photos' = IF t \in {"photos", "products"} THEN {} ELSE photos
  /\ costs' = IF t \in {"costs", "products"} THEN {} ELSE costs
  /\ prices' = IF t \in {"prices", "products"} THEN {}
               ELSE IF t = "stores" THEN {[r EXCEPT !.store_id = NULL] : r \in prices}
               ELSE prices
  /\ products' = IF t = "products" THEN {} ELSE products
  /\ stores' = IF t = "stores" THEN {} ELSE stores

\* the purge button is clicked: the first delete runs
ClickPurge ==
  /\ pc = "idle"
  /\ DeleteFrom(PurgeOrder[1])
  /\ pc' = "purge"
  /\ sheet' = PurgeOrder[2]
  /\ idx' = 2
  /\ msg' = "none"
  /\ start' = Snapshot
  /\ repeat' = FALSE
  /\ view' = NoView
  /\ UNCHANGED up

\* the next delete of the purge
PurgeNext ==
  /\ pc = "purge"
  /\ DeleteFrom(PurgeOrder[idx])
  /\ IF idx = Len(PurgeOrder)
     THEN pc' = "idle" /\ msg' = "purged" /\ sheet' = "end" /\ idx' = 0 /\ start' = NoSnap
     ELSE pc' = "purge" /\ sheet' = PurgeOrder[idx + 1] /\ idx' = idx + 1 /\ UNCHANGED <<msg, start>>
  /\ UNCHANGED <<up, repeat, view>>

-----------------------------------------------------------------------------
(* The photo upload handler, lines 423-442 *)

\* "Envoyer la photo" for a sku: the object is stored and a photos row inserted;
\* an unknown sku or a failed upload inserts nothing
SendPhoto(sku, uploaded) ==
  /\ pc = "idle"
  /\ Cardinality(photos) < MaxPhotos
  /\ LET pr == get_product_id(sku)
     IN  IF pr = NULL
         THEN UNCHANGED photos /\ msg' = "exception"
         ELSE IF ~uploaded
         THEN UNCHANGED photos /\ msg' = "exception"
         ELSE /\ photos' = photos \cup {[id |-> uuid4(photos, sku),
                                         product_id |-> CHOOSE p \in pr : TRUE,
                                         key |-> <<CHOOSE p \in pr : TRUE, uuid4(photos, sku)>>]}
              /\ msg' = "photo"
  /\ start' = NoSnap
  /\ repeat' = FALSE
  /\ view' = NoView
  /\ UNCHANGED <<products, stores, prices, costs, up, pc, sheet, idx>>

-----------------------------------------------------------------------------
(* The listing tab, lines 172-285, with an empty search box and no category chosen *)

\* select id, sku, name, brand, category from products where (:q = '' ...)
ListRows == products

\* the store the listing is scoped to: the stores row of the typed code, if any
ListStore(store_code) ==
  IF store_code # <<>> THEN get_store_id(store_code) ELSE NULL

\* variant, not the code: the store filter of line 249 is left out
PriceMatchesAnyStore(r, pid, today, store) ==
  /\ r.product_id = pid
  /\ r.valid_from <= today
  /\ \A vt \in r.valid_to : vt >= today

\* the where clause of price_sql: the validity window, and the store when one is set
PriceMatches(r, pid, today, store) ==
  /\ r.product_id = pid
  /\ r.valid_from <= today
  /\ \A vt \in r.valid_to : vt >= today
  /\ (store # NULL => r.store_id = store)

CostMatches(r, pid, today) ==
  /\ r.product_id = pid
  /\ r.valid_from <= today
  /\ \A vt \in r.valid_to : vt >= today

\* variant, not the code: order by valid_from asc
FirstByValidFromAsc(rows) ==
  {r \in rows : \A o \in rows : o.valid_from >= r.valid_from}

\* order by valid_from desc limit 1: a row with the greatest valid_from; which of
\* several such rows comes first is not fixed by the query
FirstByValidFromDesc(rows) ==
  {r \in rows : \A o \in rows : o.valid_from <= r.valid_from}

\* the rows price_sql may return: one row, or none
PriceQuery(pid, today, store) ==
  LET m == {r \in prices : PriceMatches(r, pid, today, store)}
  IN  IF m = {} THEN {NULL} ELSE {Some(r.price) : r \in FirstByValidFromDesc(m)}

CostQuery(pid, today) ==
  LET m == {r \in costs : CostMatches(r, pid, today)}
  IN  IF m = {} THEN {NULL} ELSE {Some(r.cost) : r \in FirstByValidFromDesc(m)}

\* percentages and ratios are kept in hundredths, rounded half up
RoundDiv(a, b) == (2 * a + b) \div (2 * b)

GoodPct == 20
WarnPct == 10

\* m_pct >= t, for m_pct = (pv - c) / pv * 100 if pv else 0
PctAtLeast(pv, c, t) == IF pv # 0 THEN (pv - c) * 100 >= t * pv ELSE 0 >= t

\* the badge of line 273: "good" is the green one, "warning" orange, "critical" red
Badge(pv, c) ==
  IF PctAtLeast(pv, c, GoodPct) THEN "good"
  ELSE IF PctAtLeast(pv, c, WarnPct) THEN "warning" ELSE "critical"

\* coeff = pv / c if c else 0, in hundredths
Coeff(pv, c) == IF c # 0 THEN RoundDiv(pv * 100, c) ELSE 0

\* the markdown of lines 266-282
Shown(price, cost) ==
  IF price = NULL THEN [kind |-> "no active price"]
  ELSE LET pv == CHOOSE v \in price : TRUE
       IN  IF cost = NULL THEN [kind |-> "price", pv |-> pv]
           ELSE LET c == CHOOSE v \in cost : TRUE
                IN  [kind |-> "margin", pv |-> pv, c |-> c, m_eur |-> pv - c,
                     m_pct |-> IF pv # 0 THEN RoundDiv((pv - c) * 100, pv) ELSE 0,
                     coeff |-> Coeff(pv, c), badge |-> Badge(pv, c)]

Card(p, price, cost) ==
  [id |-> p.id, sku |-> p.sku, price |-> price, cost |-> cost, shown |-> Shown(price, cost)]

\* one run of the listing tab: a card for every product
Render(store_code, today) ==
  /\ pc = "idle"
  /\ LET store == ListStore(store_code)
         ids == {p.id : p \in ListRows}
     IN  \E price \in [ids -> UNION {PriceQuery(i, today, store) : i \in ids}],
            cost \in [ids -> UNION {CostQuery(i, today) : i \in ids}] :
           /\ \A i \in ids : /\ price[i] \in PriceQuery(i, today, store)
                             /\ cost[i] \in CostQuery(i, today)
           /\ view' = [store_code |-> store_code, store |-> store, today |-> today,
                       cards |-> {Card(p, price[p.id], cost[p.id]) : p \in ListRows}]
  /\ UNCHANGED <<tables, up, pc, sheet, idx, msg, start, repeat>>

\* the listing is rendered after another handler has run
ListTab(store_code, today) ==
  /\ view = NoView
  /\ Render(store_code, today)

\* the script runs again with the same store code, on the same day
Rerun ==
  /\ view # NoView
  /\ Render(view.store_code, view.today)

-----------------------------------------------------------------------------
(* Inputs: the workbooks that are uploaded *)

SeqsUpTo(S, n) == UNION {[1..k -> S] : k \in 0..n}

Txt(x) == T(<<x>>)

ProductRow(sku, name, category, status, photo_url) ==
  [sku |-> T(sku), name |-> T(name), brand |-> NaN, category |-> category,
   status |-> status, photo_url |-> photo_url]
StoreRow(code) == [code |-> T(code), name |-> Txt("s"), sector_id |-> NaN]
PriceRow(sku, store_code, price, valid_from, valid_to) ==
  [sku |-> sku, store_code |-> store_code, price |-> price,
   valid_from |-> valid_from, valid_to |-> valid_to]
CostRow(sku, cost, valid_from, valid_to) ==
  [sku |-> sku, cost |-> cost, valid_from |-> valid_from, valid_to |-> valid_to]

Workbook(has_url, prod, stor, pric, cost) ==
  [sheet_names |-> {"products" : x \in {1 : y \in DOMAIN prod}}
                     \cup {"stores" : x \in {1 : y \in DOMAIN stor}}
                     \cup {"prices" : x \in {1 : y \in DOMAIN pric}}
                     \cup {"costs" : x \in {1 : y \in DOMAIN cost}},
   has_url |-> has_url, products |-> prod, stores |-> stor, prices |-> pric, costs |-> cost]

PlainA == ProductRow(<<"A">>, <<"n">>, NaN, NaN, NaN)
PlainB == ProductRow(<<"B">>, <<"n">>, NaN, NaN, NaN)

\* Batches: the product A, the store S, a prices sheet of at most MaxRows rows
\* and a costs sheet of at most one row.  The rows: applied rows
\* (some with valid_to before valid_from), rows with a missing value, sku or
\* valid_from, rows whose sku is unknown, and rows that raise (a price that is no
\* number, a cost too large for the column)
BatchPriceRows ==
  {PriceRow(Txt("A"), Txt("S"), N(12), D(1), D(2)),
   PriceRow(T(<<"A", " ">>), NaN, N(14), D(3), D(1)),
   PriceRow(Txt("A"), NaN, NaN, D(1), NaN),
   PriceRow(NaN, NaN, N(12), D(1), NaN),
   PriceRow(Txt("A"), NaN, N(12), NaN, D(2)),
   PriceRow(Txt("Z"), NaN, N(12), D(1), NaN),
   PriceRow(Txt("A"), NaN, Txt("x"), D(1), NaN)}
BatchCostRows ==
  {CostRow(Txt("A"), N(8), D(2), D(1)),
   CostRow(Txt("A"), NaN, D(1), NaN),
   CostRow(Txt("Z"), N(8), D(1), NaN),
   CostRow(Txt("A"), N(CostLimit), D(1), NaN)}
Batches ==
  {Workbook(TRUE, prod, stor, pric, cost) :
     prod \in {<<PlainA>>}, stor \in {<<StoreRow(<<"S">>)>>},
     pric \in SeqsUpTo(BatchPriceRows, MaxRows), cost \in SeqsUpTo(BatchCostRows, 1)}

\* Product books: a products sheet only, with or without a photo_url column; the
\* rows spell the sku A with and without blanks around it, and vary every column
ProductSheetRows ==
  {ProductRow(sku, ncs[1], ncs[2], ncs[3], photo_url) :
     sku \in {<<"A">>, <<" ", "A">>},
     ncs \in {<<<<"n">>, NaN, NaN>>, <<<<"m", " ">>, Txt("c"), Txt("o")>>},
     photo_url \in {NaN, Txt(" "), Txt("u"), Txt("v")}} \cup {PlainB}
ProductBooks ==
  {Workbook(has_url, prod, <<>>, <<>>, <<>>) :
     has_url \in BOOLEAN, prod \in SeqsUpTo(ProductSheetRows, MaxProductRows)}

\* Purge books: at most one row in each sheet
PurgeBooks ==
  {Workbook(TRUE, prod, stor, pric, cost) :
     prod \in SeqsUpTo({PlainA, PlainB}, 1), stor \in SeqsUpTo({StoreRow(<<"S">>)}, 1),
     pric \in SeqsUpTo({PriceRow(Txt("A"), Txt("S"), N(12), D(1), D(2)),
                        PriceRow(Txt("B"), NaN, N(10), D(1), NaN)}, 1),
     cost \in SeqsUpTo({CostRow(Txt("A"), N(8), D(1), NaN)}, 1)}

\* Listing books: one book with the products A and B and the stores S and R, and
\* books of one prices row or one costs row
ListingBase == Workbook(TRUE, <<PlainA, PlainB>>, <<StoreRow(<<"S">>), StoreRow(<<"R">>)>>, <<>>, <<>>)
ListingPriceRows ==
  {PriceRow(Txt("A"), NaN, N(12), D(1), D(2)),
   PriceRow(Txt("A"), NaN, N(14), D(3), NaN),
   PriceRow(Txt("A"), NaN, N(14), D(1), NaN),
   PriceRow(Txt("A"), Txt("S"), N(13), D(2), NaN),
   PriceRow(Txt("A"), Txt("R"), N(15), D(3), NaN),
   PriceRow(Txt("B"), NaN, N(10), D(1), NaN)}
ListingCostRows ==
  {CostRow(Txt("A"), N(0), D(1), NaN),
   CostRow(Txt("A"), N(8), D(1), D(2)),
   CostRow(Txt("A"), N(13), D(3), NaN)}
ListingBooks ==
  {ListingBase}
    \cup {Workbook(TRUE, <<>>, <<>>, <<r>>, <<>>) : r \in ListingPriceRows}
    \cup {Workbook(TRUE, <<>>, <<>>, <<>>, <<r>>) : r \in ListingCostRows}
StoreCodes == {<<>>, <<"S">>, <<"Q">>}
Dates == 0..MaxDate

-----------------------------------------------------------------------------
(* Specifications *)

Init ==
  /\ products = {} /\ stores = {} /\ prices = {} /\ costs = {} /\ photos = {}
  /\ up = NoFile
  /\ pc = "idle" /\ sheet = "end" /\ idx = 0
  /\ msg = "none"
  /\ start = NoSnap
  /\ repeat = FALSE
  /\ view = NoView

\* imports of batches, and crashes
Next ==
  \/ \E wb \in Batches : ImportFile(wb)
  \/ ClearFile
  \/ ClickImport
  \/ ImportProductRow
  \/ ImportStoreRow
  \/ ImportPriceRow
  \/ ImportCostRow
  \/ Crash

Spec == Init /\ [][Next]_vars

\* imports of product books
NextProducts ==
  \/ \E wb \in ProductBooks : ImportFile(wb)
  \/ ClearFile
  \/ ClickImport
  \/ ImportProductRow
  \/ Crash

SpecProducts == Init /\ [][NextProducts]_vars

\* imports of purge books, photo uploads and purges
NextPurge ==
  \/ \E wb \in PurgeBooks : ImportFile(wb)
  \/ ClearFile
  \/ ClickImport
  \/ ImportProductRow
  \/ ImportStoreRow
  \/ ImportPriceRow
  \/ ImportCostRow
  \/ \E sku \in {<<"A">>, <<"B">>} : \E uploaded \in BOOLEAN : SendPhoto(sku, uploaded)
  \/ ClickPurge
  \/ PurgeNext
  \/ Crash

SpecPurge == Init /\ [][NextPurge]_vars

\* imports of listing books and runs of the listing tab
NextListing ==
  \/ \E wb \in ListingBooks : ImportFile(wb)
  \/ ClearFile
  \/ ClickImport
  \/ ImportProductRow
  \/ ImportStoreRow
  \/ ImportPriceRow
  \/ ImportCostRow
  \/ \E store_code \in StoreCodes : \E today \in Dates : ListTab(store_code, today)
  \/ Rerun

SpecListing == Init /\ [][NextListing]_vars

-----------------------------------------------------------------------------
(* Properties of the import of prices and costs (Spec) *)

ImportSucceeded == pc = "idle" /\ msg = "success" /\ start # NoSnap
ImportStopped == pc = "idle" /\ msg = "exception" /\ start # NoSnap

\* C1: importing the same workbook a second time leaves the catalog exactly as
\* it was after the first import (no price or cost row is inserted twice).
C1_Idempotent == (ImportSucceeded /\ repeat) => Snapshot = start

\* C8: in every reachable catalog state every price and cost row that has both
\* valid_from and valid_to satisfies valid_from <= valid_to.
C8_ValidityWindow ==
  /\ \A r \in prices : \A vt \in r.valid_to : r.valid_from <= vt
  /\ \A r \in costs : \A vt \in r.valid_to : r.valid_from <= vt

\* a dropped sheet row: sku, value or valid_from missing, or a sku
\* that is the sku of no product
SkuKnown(r) == \E p \in products : p.sku = strip(str(r.sku))
IsDropped(r, value) ==
  r.sku = NaN \/ r[value] = NaN \/ r.valid_from = NaN \/ ~SkuKnown(r)
Kept(rows, value) == {j \in DOMAIN rows : ~IsDropped(rows[j], value)}

\* the table holds, besides the rows it had, one new row for each kept sheet row
RowMatches(rec, r, value) ==
  /\ \E p \in products : p.id = rec.product_id /\ p.sku = strip(str(r.sku))
  /\ rec[value] = r[value].n
  /\ rec.valid_from = r.valid_from.d
  /\ rec.valid_to = IF r.valid_to = NaN THEN NULL ELSE Some(r.valid_to.d)
AllApplied(tbl, base, rows, value) ==
  /\ base \subseteq tbl
  /\ Cardinality(tbl \ base) = Cardinality(Kept(rows, value))
  /\ \A j \in Kept(rows, value) : \E rec \in tbl \ base : RowMatches(rec, rows[j], value)

CurrentRow == Frame(up, sheet)[idx]
AtValueRow == pc = "import" /\ sheet \in {"prices", "costs"}
ValueOf(s) == IF s = "prices" THEN "price" ELSE "cost"

\* the step taken at a dropped row, and the state after the batch
C5_DropStep ==
  (AtValueRow /\ IsDropped(CurrentRow, ValueOf(sheet)))
    => /\ tables' = tables
       /\ msg' # "exception"
       /\ <<pc', sheet', idx'>> \in {<<"import", AfterRow(up, sheet, idx).sheet, AfterRow(up, sheet, idx).idx>>,
                                     <<"idle", "end", 0>>}
C5_BatchApplied ==
  /\ (ImportSucceeded \/ (pc = "import" /\ sheet = "costs" /\ idx = 1))
       => AllApplied(prices, start.prices, up.prices, "price")
  /\ ImportSucceeded => AllApplied(costs, start.costs, up.costs, "cost")
\* C5: a prices / costs row with sku, value or valid_from missing, or with an
\* unknown sku, is dropped without changing the catalog, the import goes on, and
\* every other valid row of the batch, before or after it, is applied.
C5_PartialFailure == []C5_BatchApplied /\ [][C5_DropStep]_vars

\* a dropped row stands before an applied row of the same prices sheet
C5_Witness ==
  /\ ImportSucceeded
  /\ \E j, k \in DOMAIN up.prices :
       /\ j < k
       /\ IsDropped(up.prices[j], "price")
       /\ ~IsDropped(up.prices[k], "price")
  /\ prices # start.prices

\* the row the import is at raises: a value that is no number or too large for
\* the column, or a date that is no date, in a row whose sku is known
Limit(s) == IF s = "prices" THEN PriceLimit ELSE CostLimit
Fails(r, s) ==
  /\ SkuKnown(r)
  /\ \/ r[ValueOf(s)].k # "num"
     \/ r[ValueOf(s)].n >= Limit(s)
     \/ r.valid_from.k # "date"
     \/ r.valid_to.k \notin {"date", "text"}
     \/ (r.valid_to.k = "text" /\ r.valid_to.s # <<>>)

RowsOf(tbl) == Cardinality(tbl)
OneRowWritten(old, new) ==
  \/ new = old
  \/ \E r \in new : new \ {r} = old
  \/ \E r \in new, o \in old : r.id = o.id /\ new \ {r} = old \ {o}

\* a step of the import, and the state in which a stopped import leaves the tables
C10_Step ==
  pc = "import" =>
    /\ (AtValueRow /\ Fails(CurrentRow, sheet) /\ up' = up)
         => (tables' = tables /\ pc' = "idle" /\ msg' = "exception")
    /\ (pc' = "idle" /\ msg' # "success") => tables' = tables
    /\ \/ tables' = tables
       \/ OneRowWritten(products, products') /\ UNCHANGED <<stores, prices, costs, photos>>
       \/ OneRowWritten(stores, stores') /\ UNCHANGED <<products, prices, costs, photos>>
       \/ OneRowWritten(prices, prices') /\ UNCHANGED <<products, stores, costs, photos>>
       \/ OneRowWritten(costs, costs') /\ UNCHANGED <<products, stores, prices, photos>>
Before(rows, i, value) == {j \in 1..(i - 1) : ~IsDropped(rows[j], value)}
C10_Stopped ==
  ImportStopped =>
    /\ \A j \in DOMAIN Frame(up, "products") :
         \E p \in products : p.sku = strip(str(Frame(up, "products")[j].sku))
    /\ \A j \in DOMAIN Frame(up, "stores") :
         \E x \in stores : x.code = strip(str(Frame(up, "stores")[j].code))
    /\ sheet = "prices" =>
         /\ start.prices \subseteq prices
         /\ Cardinality(prices \ start.prices) = Cardinality(Before(Frame(up, "prices"), idx, "price"))
         /\ costs = start.costs
    /\ sheet = "costs" =>
         /\ AllApplied(prices, start.prices, up.prices, "price")
         /\ start.costs \subseteq costs
         /\ Cardinality(costs \ start.costs) = Cardinality(Before(Frame(up, "costs"), idx, "cost"))
\* C10: each row of an import is written in its own transaction, fully or not
\* at all, and the import is never rolled back: when it stops at a row (the row
\* raises, or the process dies) the rows before it stay committed, the row has
\* no effect and no later row or sheet is applied.
C10_PerRowAtomicity == []C10_Stopped /\ [][C10_Step]_vars

\* the import stopped at a prices row after it had written a row, with a costs
\* sheet still to come
C10_Witness ==
  /\ ImportStopped
  /\ sheet = "prices"
  /\ prices # start.prices
  /\ Len(up.costs) > 0

-----------------------------------------------------------------------------
(* Properties of the products sheet (SpecProducts) *)

Blank(c) == c = NaN \/ (c.k = "text" /\ strip(c.s) = <<>>)
AtProductRow == pc = "import" /\ sheet = "products"
Incoming == up.products[idx]
WithSku(tbl, sku) == {p \in tbl : p.sku = sku}

\* the step taken at a products row whose sku is already stored
C4_Step ==
  (AtProductRow /\ up' = up /\ WithSku(products, strip(Incoming.sku.s)) # {})
    => \E old \in products, new \in products' :
         /\ old.sku = strip(Incoming.sku.s)
         /\ products' \ {new} = products \ {old}
         /\ WithSku(products', old.sku) = {new}
         /\ new.id = old.id
         /\ new.name = strip(Incoming.name.s)
         /\ new.category = IF Incoming.category = NaN THEN NULL ELSE Some(Incoming.category.s)
         /\ new.status = IF Incoming.status = NaN THEN Some(Active) ELSE Some(Incoming.status.s)
         /\ new.photo_url = IF up.has_url /\ ~Blank(Incoming.photo_url)
                            THEN Some(strip(Incoming.photo_url.s))
                            ELSE old.photo_url
\* C4: when a product row is imported whose sku already exists, name, category
\* and status are overwritten with the incoming values whatever was stored, and
\* photo_url is overwritten only if the incoming value is non-empty; with an
\* empty or blank incoming photo_url, or without the column, the stored
\* photo_url stays.  No second product with the same sku is created.
C4_UpsertMerge == [][C4_Step]_vars

\* a product that had a photo was imported again with another name and no
\* photo, and kept its photo
C4_Witness ==
  /\ ImportSucceeded
  /\ \E old \in start.products, new \in products :
       /\ new.sku = old.sku
       /\ old.photo_url # NULL
       /\ new.photo_url = old.photo_url
       /\ new.name # old.name
       /\ \A j \in DOMAIN up.products : ~up.has_url \/ Blank(up.products[j].photo_url)

-----------------------------------------------------------------------------
(* Properties of the purge (SpecPurge) *)

\* referential integrity, the order of the deletes, and the state after the purge
Ids(tbl) == {r.id : r \in tbl}
References ==
  /\ \A r \in prices : r.product_id \in Ids(products) /\ r.store_id \subseteq Ids(stores)
  /\ \A r \in costs : r.product_id \in Ids(products)
  /\ \A r \in photos : r.product_id \in Ids(products)
ChildrenFirst ==
  /\ ~(Ids(products) \subseteq Ids(products')) => (photos = {} /\ prices = {} /\ costs = {})
  /\ ~(Ids(stores) \subseteq Ids(stores')) => prices = {}
Purged ==
  (pc = "idle" /\ msg = "purged")
    => /\ products = {} /\ stores = {} /\ prices = {} /\ costs = {} /\ photos = {}
       /\ ListRows = {}

\* C6: the purge empties photos, prices and costs before products, and prices
\* before stores; in every intermediate state no remaining row references a
\* deleted product or store; when it completes the five tables are empty and a
\* following listing is empty.
C6_PurgeOrder == [](References /\ Purged) /\ [][ChildrenFirst]_vars

\* the purge of a catalog that had rows in every table has emptied the child
\* tables and is about to delete the products
C6_Witness ==
  /\ pc = "purge" /\ sheet = "products"
  /\ start.photos # {} /\ start.prices # {} /\ start.costs # {} /\ start.stores # {}
  /\ \E r \in start.prices : r.store_id # NULL
  /\ products # {} /\ stores # {}
  /\ photos = {} /\ prices = {} /\ costs = {}

-----------------------------------------------------------------------------
(* Properties of the listing (SpecListing) *)

InWindow(r, today) == r.valid_from <= today /\ (r.valid_to = NULL \/ \E vt \in r.valid_to : vt >= today)
EligiblePrices(pid, today) == {r \in prices : r.product_id = pid /\ InWindow(r, today)}
EligibleCosts(pid, today) == {r \in costs : r.product_id = pid /\ InWindow(r, today)}
Latest(E) == {r \in E : \A o \in E : o.valid_from <= r.valid_from}

\* the value returned comes from a row of E with the greatest valid_from; none
\* is returned exactly when E is empty
Resolves(got, E, value) ==
  /\ got = NULL <=> E = {}
  /\ got # NULL => \E r \in Latest(E) : got = Some(r[value])

\* C2: resolution for a product at a date returns a row only from the product's
\* rows with valid_from <= date and valid_to null or >= date, one with the
\* greatest valid_from among them, and none exactly when there is no such row
\* (price resolution without store scope, cost resolution always).
C2_Resolution ==
  view # NoView =>
    \A card \in view.cards :
      /\ view.store = NULL => Resolves(card.price, EligiblePrices(card.id, view.today), "price")
      /\ Resolves(card.cost, EligibleCosts(card.id, view.today), "cost")

\* a product with the windows 1..2 and 3.. is listed on day 3, inside the second window
C2_Witness ==
  /\ view # NoView /\ view.store = NULL /\ view.today = 3
  /\ \E card \in view.cards :
       /\ card.price = Some(14)
       /\ \E a, b \in prices :
            /\ a.product_id = card.id /\ b.product_id = card.id
            /\ a.valid_from = 1 /\ a.valid_to = Some(2) /\ a.price = 12
            /\ b.valid_from = 3 /\ b.valid_to = NULL

\* C3: with a store scope the resolved price row belongs to that store only
\* (never another store's row, never a row without store); without scope any
\* eligible row may be returned; the cost does not depend on the scope.
C3_StoreScope ==
  view # NoView =>
    \A card \in view.cards :
      /\ view.store # NULL =>
           Resolves(card.price,
                    {r \in EligiblePrices(card.id, view.today) : r.store_id = view.store},
                    "price")
      /\ view.store = NULL => Resolves(card.price, EligiblePrices(card.id, view.today), "price")
      /\ Resolves(card.cost, EligibleCosts(card.id, view.today), "cost")

\* scoped to a store, the listing shows that store's price although a row of
\* another store or without store is eligible and more recent
C3_Witness ==
  /\ view # NoView /\ view.store # NULL
  /\ \E card \in view.cards : \E own, other \in EligiblePrices(card.id, view.today) :
       /\ own.store_id = view.store
       /\ other.store_id # view.store
       /\ other.valid_from > own.valid_from
       /\ other.price # own.price
       /\ card.price = Some(own.price)

\* C7: for a pair with cost = 0 the coefficient is 0 and the health shown is not "good".
C7_ZeroCost ==
  view # NoView =>
    \A card \in view.cards :
      (card.shown.kind = "margin" /\ card.shown.c = 0)
        => (card.shown.coeff = 0 /\ card.shown.badge # "good")

\* a rerun of the listing with the same store code and date
C9_Rerender ==
  (view # NoView /\ view' # NoView /\ view'.store_code = view.store_code /\ view'.today = view.today)
    => view' = view
\* C9: two resolutions on the same catalog state, date and store scope return
\* the same record.
C9_Deterministic == [][C9_Rerender]_vars

====
